---- MODULE Spec2Model ----
(***************************************************************************)
(* State-vector engines of blackroad-os-quantum.                           *)
(*                                                                         *)
(*   bloche/blackroad_quantum.py       QuantumState, Gate, Algorithm,      *)
(*                                     HardwareInterface, BlackRoadQuantum *)
(*   bloche/blackroad_quantum_core.py  QuantumState, QuantumCircuit        *)
(*                                                                         *)
(* Amplitudes are numpy complex128 values.  Every amplitude the modelled   *)
(* gates can produce, for levels in {2, 3, 4} and the rotation angles of   *)
(* ThetaUnits, is an element of Z[zeta] (zeta = exp(2 pi i / 12)) divided  *)
(* by the square root of a positive integer, so a state vector is kept     *)
(* exactly as a pair: psi, a vector of elements of Z[zeta], and den, with  *)
(* amplitude k = psi[k] / sqrt(den).  An element a + b zeta + c zeta^2 +   *)
(* d zeta^3 of Z[zeta] is the tuple <<a, b, c, d>>; zeta^4 = zeta^2 - 1.   *)
(***************************************************************************)
EXTENDS Integers, Sequences, FiniteSets, TLC

VARIABLES
    eng,         \* which engine owns the state: "bq" (blackroad_quantum) or "core"
    n_qubits,    \* QuantumState.n_qubits / num_qubits
    n_levels,    \* QuantumState.n_levels (always 2 in the core engine)
    psi,         \* numerators of the amplitude vector (QuantumState.psi / state_vector)
    den,         \* amplitude k is psi[k] / sqrt(den)
    normalized,  \* QuantumState._normalized
    steps,       \* number of calls made so far
    last,        \* the last call: its name, arguments, the state before it, its result
    history,     \* BlackRoadQuantum.history / QuantumCircuit.operations
    memory,      \* QuantumMemory: the journal file it reads and its result cache
    node_health, \* quantum_cluster_balancer.node_health
    current_node_index,  \* quantum_cluster_balancer.current_node_index
    node_status  \* what each cluster node does with a request right now

vars == <<eng, n_qubits, n_levels, psi, den, normalized, steps, last, history,
          memory, node_health, current_node_index, node_status>>

(* the state of the services around the engines *)
services == <<memory, node_health, current_node_index, node_status>>

(* quantum_cluster_balancer.NODES, by name and in list order *)
NODES == <<"ARIA", "LUCIDIA", "ALICE">>

NodeNames == {NODES[k] : k \in 1..Len(NODES)}

(* node_health as the module creates it *)
InitialHealth == [name \in NodeNames |-> [healthy |-> TRUE, errors |-> 0]]

(* QuantumMemory(): an empty cache; no journal written yet *)
NewMemory(journal) == [journal |-> journal, cache |-> {}]

(* no memory searched, no balancer request made *)
ServicesIdle ==
    /\ memory = NewMemory(<< >>)
    /\ node_health = InitialHealth
    /\ current_node_index = 0
    /\ node_status = [name \in NodeNames |-> "up"]

----------------------------------------------------------------------------
(* Bounds of the exploration *)

MaxQubits == 3
MaxDim == 9
MaxGates == 3
MaxPrep == 2
MaxCalls == 3
MaxShots == 2
MaxDiffQubits == 2
MaxGroverQubits == 3
MaxFluent == 2
MaxHardwareCalls == 1

(* Levels whose phases exp(2 pi i k / levels) are twelfth roots of unity *)
Levels == {2, 3, 4}

(* Rz angles: theta = m * levels * pi / 6, so exp(i theta k / levels) = zeta^(m k) *)
ThetaUnits == {1, 3}

----------------------------------------------------------------------------
(* Complex arithmetic in Z[zeta] *)

RZero == <<0, 0, 0, 0>>
ROne == <<1, 0, 0, 0>>
RI == <<0, 0, 0, 1>>
RInt(k) == <<k, 0, 0, 0>>

RAdd(x, y) == <<x[1] + y[1], x[2] + y[2], x[3] + y[3], x[4] + y[4]>>
RNeg(x) == <<-x[1], -x[2], -x[3], -x[4]>>
RSub(x, y) == RAdd(x, RNeg(y))
RScale(k, x) == <<k * x[1], k * x[2], k * x[3], k * x[4]>>

RMulFull(x, y) ==
    LET p0 == x[1] * y[1]
        p1 == x[1] * y[2] + x[2] * y[1]
        p2 == x[1] * y[3] + x[2] * y[2] + x[3] * y[1]
        p3 == x[1] * y[4] + x[2] * y[3] + x[3] * y[2] + x[4] * y[1]
        p4 == x[2] * y[4] + x[3] * y[3] + x[4] * y[2]
        p5 == x[3] * y[4] + x[4] * y[3]
        p6 == x[4] * y[4]
    IN  <<p0 - p4 - p6, p1 - p5, p2 + p4, p3 + p5>>

RMul(x, y) ==
    IF x = RZero \/ y = RZero THEN RZero
    ELSE IF x = ROne THEN y
    ELSE IF y = ROne THEN x
    ELSE RMulFull(x, y)

(* complex conjugate: conj(zeta) = zeta - zeta^3 *)
RConj(x) == <<x[1] + x[3], x[2], -x[3], -x[2] - x[4]>>

(* |x|^2, an element of Z[sqrt 3]; <<m, 0, 0, 0>> when it is the integer m *)
RAbs2(x) == RMul(x, RConj(x))

(* twice the real part: what is left of 2x when the imaginary part is dropped *)
TwoRe(x) == RAdd(x, RConj(x))

(* zeta^k *)
Root12(k) ==
    LET r == k % 12
        base == CASE r % 6 = 0 -> <<1, 0, 0, 0>>
                  [] r % 6 = 1 -> <<0, 1, 0, 0>>
                  [] r % 6 = 2 -> <<0, 0, 1, 0>>
                  [] r % 6 = 3 -> <<0, 0, 0, 1>>
                  [] r % 6 = 4 -> <<-1, 0, 1, 0>>
                  [] r % 6 = 5 -> <<0, -1, 0, 1>>
    IN  IF r < 6 THEN base ELSE RNeg(base)

(* np.exp(2j * np.pi * k / levels) *)
Exp2PiI(k, levels) == Root12((12 \div levels) * k)

RECURSIVE Pow(_, _)
Pow(b, e) == IF e = 0 THEN 1 ELSE b * Pow(b, e - 1)

RECURSIVE RSumTo(_, _)
(* f[0] + ... + f[m-1] *)
RSumTo(f, m) == IF m = 0 THEN RZero ELSE RAdd(RSumTo(f, m - 1), f[m - 1])

RECURSIVE Vec(_, _)
(* the vector f[0], ..., f[m-1], every entry computed once *)
Vec(f, m) == IF m = 1 THEN (0 :> f[0]) ELSE Vec(f, m - 1) @@ ((m - 1) :> f[m - 1])

----------------------------------------------------------------------------
(* Exact form of a vector: psi / sqrt(den) = (psi / g) / sqrt(den / g^2).    *)
(* den is always positive; the loops below test it only to have each step    *)
(* computed before the next one starts.                                      *)

Divisible(v, dim, g) ==
    \A k \in 0..(dim - 1) : \A c \in 1..4 : v[k][c] % g = 0

DivVec(v, dim, g) ==
    Vec([k \in 0..(dim - 1) |->
            <<v[k][1] \div g, v[k][2] \div g, v[k][3] \div g, v[k][4] \div g>>], dim)

RECURSIVE Reduce(_, _, _)
Reduce(v, d, dim) ==
    IF d % 4 = 0 /\ Divisible(v, dim, 2) THEN Reduce(DivVec(v, dim, 2), d \div 4, dim)
    ELSE IF d % 9 = 0 /\ Divisible(v, dim, 3) THEN Reduce(DivVec(v, dim, 3), d \div 9, dim)
    ELSE [psi |-> v, den |-> d]

(* sum of |amplitude|^2 numerators; the state has norm 1 iff this is <<den,0,0,0>> *)
Norm2(v, dim) == RSumTo([k \in 0..(dim - 1) |-> RAbs2(v[k])], dim)

IsUnit(v, d, dim) == Norm2(v, dim) = RInt(d)

Support(v, dim) == {k \in 0..(dim - 1) : v[k] # RZero}

----------------------------------------------------------------------------
(* Matrices: [dim, den, at], entry (i, j) = at[i][j] / sqrt(den) *)

Eye(m) ==
    [dim |-> m, den |-> 1,
     at |-> [i \in 0..(m - 1) |-> [j \in 0..(m - 1) |-> IF i = j THEN ROne ELSE RZero]]]

Kron(A, B) ==
    [dim |-> A.dim * B.dim, den |-> A.den * B.den,
     at |-> [i \in 0..(A.dim * B.dim - 1) |-> [j \in 0..(A.dim * B.dim - 1) |->
                RMul(A.at[i \div B.dim][j \div B.dim], B.at[i % B.dim][j % B.dim])]]]

(* full_matrix @ state.psi *)
MatVec(M, v, d) ==
    Reduce(Vec([i \in 0..(M.dim - 1) |->
                   RSumTo([j \in 0..(M.dim - 1) |-> RMul(M.at[i][j], v[j])], M.dim)],
               M.dim),
           d * M.den, M.dim)

----------------------------------------------------------------------------
(* blackroad_quantum.py: QuantumState *)

(* QuantumState.__init__: all amplitude on basis index 0, _normalized = True *)
NewState(n, levels) ==
    [psi |-> Vec([k \in 0..(Pow(levels, n) - 1) |-> IF k = 0 THEN ROne ELSE RZero],
                 Pow(levels, n)),
     den |-> 1,
     normalized |-> TRUE]

St == [psi |-> psi, den |-> den, normalized |-> normalized]

Dim == Pow(n_levels, n_qubits)

(* QuantumState.normalize: psi /= norm when norm > 0; _normalized = True.      *)
(* The rescaled vector is psi / sqrt(sum |psi|^2) whenever that sum is an     *)
(* integer, which it is for every vector of Gaussian integers.                *)
Normalize(st, dim) ==
    LET n2 == Norm2(st.psi, dim)
    IN  IF n2[1] > 0 /\ n2[2] = 0 /\ n2[3] = 0 /\ n2[4] = 0
        THEN LET r == Reduce(st.psi, n2[1], dim)
             IN  [psi |-> r.psi, den |-> r.den, normalized |-> TRUE]
        ELSE [st EXCEPT !.normalized = TRUE]

----------------------------------------------------------------------------
(* blackroad_quantum.py: Gate *)

(* H_matrix for levels = 2 with the sign on the wrong entry: [[1,1],[-1,1]] / sqrt(2) *)
HMatrixRotation(levels) ==
    [dim |-> levels, den |-> 2,
     at |-> [i \in 0..(levels - 1) |-> [j \in 0..(levels - 1) |->
                IF i = 1 /\ j = 0 THEN RInt(-1) ELSE ROne]]]

(* H_matrix.  For levels > 2 it is built in a float array, np.ones / sqrt(levels), *)
(* and each entry is multiplied in place by the complex exp(2 pi i i j / levels):  *)
(* the float array keeps the real part of the product.                             *)
HMatrix(levels) ==
    IF levels = 2
    THEN [dim |-> 2, den |-> 2,
          at |-> [i \in 0..1 |-> [j \in 0..1 |->
                     IF i = 1 /\ j = 1 THEN RInt(-1) ELSE ROne]]]
    ELSE [dim |-> levels, den |-> 4 * levels,
          at |-> [i \in 0..(levels - 1) |-> [j \in 0..(levels - 1) |->
                     TwoRe(RMul(ROne, Exp2PiI(i * j, levels)))]]]

(* X_matrix: [[0,1],[1,0]], or np.roll(np.eye(levels), 1, axis=1) *)
XMatrix(levels) ==
    IF levels = 2
    THEN [dim |-> 2, den |-> 1,
          at |-> [i \in 0..1 |-> [j \in 0..1 |-> IF i # j THEN ROne ELSE RZero]]]
    ELSE [dim |-> levels, den |-> 1,
          at |-> [i \in 0..(levels - 1) |-> [j \in 0..(levels - 1) |->
                     Eye(levels).at[i][(j - 1) % levels]]]]

(* Z_matrix: diag(1, -1), or diag(exp(2 pi i k / levels)) *)
ZMatrix(levels) ==
    IF levels = 2
    THEN [dim |-> 2, den |-> 1,
          at |-> [i \in 0..1 |-> [j \in 0..1 |->
                     IF i # j THEN RZero ELSE IF i = 0 THEN ROne ELSE RInt(-1)]]]
    ELSE [dim |-> levels, den |-> 1,
          at |-> [i \in 0..(levels - 1) |-> [j \in 0..(levels - 1) |->
                     IF i = j THEN Exp2PiI(i, levels) ELSE RZero]]]

(* Rz_matrix: diag(exp(i theta k / levels)), theta = m * levels * pi / 6 *)
RzMatrix(levels, m) ==
    [dim |-> levels, den |-> 1,
     at |-> [i \in 0..(levels - 1) |-> [j \in 0..(levels - 1) |->
                IF i = j THEN Root12(m * i) ELSE RZero]]]

(* _expand_gate with the identities on the wrong sides of the gate *)
ExpandGateReversed(gate, qubit, n, levels) ==
    LET before == IF qubit < n - 1
                  THEN Kron(Eye(Pow(levels, n - qubit - 1)), gate)
                  ELSE gate
    IN  IF qubit > 0 THEN Kron(before, Eye(Pow(levels, qubit))) ELSE before

(* Gate._expand_gate, for 0 <= qubit < n_qubits *)
ExpandGate(gate, qubit, n, levels) ==
    LET before == IF qubit > 0 THEN Kron(Eye(Pow(levels, qubit)), gate) ELSE gate
    IN  IF qubit < n - 1
        THEN Kron(before, Eye(Pow(levels, n - qubit - 1)))
        ELSE before

(* state.psi = full_matrix @ state.psi *)
ApplyFull(full, st) ==
    LET r == MatVec(full, st.psi, st.den)
    IN  [psi |-> r.psi, den |-> r.den, normalized |-> st.normalized]

GateH(q, st, n, levels) ==
    [ApplyFull(ExpandGate(HMatrix(levels), q, n, levels), st) EXCEPT !.normalized = TRUE]

GateX(q, st, n, levels) == ApplyFull(ExpandGate(XMatrix(levels), q, n, levels), st)

GateZ(q, st, n, levels) == ApplyFull(ExpandGate(ZMatrix(levels), q, n, levels), st)

GateRz(q, m, st, n, levels) == ApplyFull(ExpandGate(RzMatrix(levels, m), q, n, levels), st)

(* (i // (levels ** e)) % levels.  For e < 0 the power is the float         *)
(* 1 / levels^(-e) and the floor division gives i * levels^(-e).             *)
DigitOver(i, e, levels) ==
    IF e >= 0 THEN (i \div Pow(levels, e)) % levels
    ELSE (i * Pow(levels, -e)) % levels

(* control and target digit of basis index i, as Gate.CX reads them *)
CtrlVal(i, control, n, levels) == DigitOver(i, n - control - 1, levels)
TargVal(i, target, n, levels) == DigitOver(i, n - target - 1, levels)

(* CXRow shifting the target digit down instead of up *)
CXRowDown(i, target, n, levels) ==
    LET targ_val == TargVal(i, target, n, levels)
        new_targ_val == (targ_val + levels - 1) % levels
    IN  i + (new_targ_val - targ_val) * Pow(levels, n - target - 1)

(* the row j that column i of CX_matrix is moved to when the control digit is > 0 *)
CXRow(i, target, n, levels) ==
    LET targ_val == TargVal(i, target, n, levels)
        new_targ_val == (targ_val + 1) % levels
    IN  i + (new_targ_val - targ_val) * Pow(levels, n - target - 1)

(* CX_matrix[j, i] = 1 raises IndexError when j is a float (the target weight *)
(* is a fraction) or lies outside the matrix; nothing has been applied to     *)
(* the state by then                                                          *)
CXRaises(control, target, n, levels) ==
    \E i \in 0..(Pow(levels, n) - 1) :
       /\ CtrlVal(i, control, n, levels) > 0
       /\ \/ n - target - 1 < 0
          \/ CXRow(i, target, n, levels) \notin (-Pow(levels, n))..(Pow(levels, n) - 1)

(* CX_matrix: the identity, with column i rewritten when the control digit is > 0 *)
CXMatrix(control, target, n, levels) ==
    [dim |-> Pow(levels, n), den |-> 1,
     at |-> [r \in 0..(Pow(levels, n) - 1) |-> [i \in 0..(Pow(levels, n) - 1) |->
                IF CtrlVal(i, control, n, levels) > 0
                THEN IF r = CXRow(i, target, n, levels) THEN ROne ELSE RZero
                ELSE IF r = i THEN ROne ELSE RZero]]]

(* Gate.CX followed by a flip of the control qudit *)
GateCXFlipControl(control, target, st, n, levels) ==
    ApplyFull(ExpandGate(XMatrix(levels), control, n, levels),
              ApplyFull(CXMatrix(control, target, n, levels), st))

GateCX(control, target, st, n, levels) ==
    ApplyFull(CXMatrix(control, target, n, levels), st)

----------------------------------------------------------------------------
(* blackroad_quantum.py: Algorithm *)

bell_state(st, n, levels) == GateCX(0, 1, GateH(0, st, n, levels), n, levels)

RECURSIVE GhzLoop(_, _, _, _)
(* for i in range(from, n_qubits): Gate.CX(0, i, state) *)
GhzLoop(st, from, n, levels) ==
    IF from >= n THEN st
    ELSE LET nx == GateCX(0, from, st, n, levels)
         IN  IF nx.den > 0 THEN GhzLoop(nx, from + 1, n, levels) ELSE nx

(* ghz_state entangling qudit 1 only *)
ghz_state_pair_only(st, n, levels) ==
    IF n >= 2 THEN GateCX(0, 1, GateH(0, st, n, levels), n, levels)
    ELSE GateH(0, st, n, levels)

ghz_state(st, n, levels) == GhzLoop(GateH(0, st, n, levels), 1, n, levels)

----------------------------------------------------------------------------
(* Calls *)

NoCall ==
    [op |-> "new", a |-> -1, b |-> -1, th |-> 0,
     pre |-> <<>>, preden |-> 0, out |-> <<>>, raised |-> FALSE]

Call(op, a, b, th) ==
    [op |-> op, a |-> a, b |-> b, th |-> th,
     pre |-> psi, preden |-> den, out |-> <<>>, raised |-> FALSE]

(* the call leaves the state st and the log h *)
BecomesLogged(st, call, h) ==
    /\ psi' = st.psi
    /\ den' = st.den
    /\ normalized' = st.normalized
    /\ steps' = steps + 1
    /\ last' = call
    /\ history' = h
    /\ UNCHANGED <<eng, n_qubits, n_levels, services>>

(* a call made on the QuantumState itself: nothing is logged *)
Becomes(st, call) == BecomesLogged(st, call, history)

Entry(op, a, b) == [op |-> op, a |-> a, b |-> b]

(* the log reduced to its newest entry *)
RecordReplacing(h, entry) == <<entry>>

(* self.history.append(...) / self.operations.append(...) *)
Record(h, entry) == Append(h, entry)

(* a method of BlackRoadQuantum or QuantumCircuit: the call on the state,     *)
(* then the append; an exception leaves the method before the append          *)
Logged(st, raised, op, a, b) ==
    BecomesLogged(st, [Call(op, a, b, 0) EXCEPT !.raised = raised],
                  IF raised THEN history ELSE Record(history, Entry(op, a, b)))

Qudits == 0..(n_qubits - 1)

DoH(q) == Becomes(GateH(q, St, n_qubits, n_levels), Call("H", q, -1, 0))

DoX(q) == Becomes(GateX(q, St, n_qubits, n_levels), Call("X", q, -1, 0))

DoZ(q) == Becomes(GateZ(q, St, n_qubits, n_levels), Call("Z", q, -1, 0))

DoRz(q, m) == Becomes(GateRz(q, m, St, n_qubits, n_levels), Call("Rz", q, -1, m))

DoCX(c, t) == Becomes(GateCX(c, t, St, n_qubits, n_levels), Call("CX", c, t, 0))

DoBell == Becomes(bell_state(St, n_qubits, n_levels), Call("bell", -1, -1, 0))

DoGhz == Becomes(ghz_state(St, n_qubits, n_levels), Call("ghz", -1, -1, 0))

----------------------------------------------------------------------------
(* Spec: Gate and Algorithm calls on one QuantumState of blackroad_quantum *)

Configs ==
    {c \in (1..MaxQubits) \X Levels : Pow(c[2], c[1]) <= MaxDim}

InitEngine(e, cfgs) ==
    /\ eng = e
    /\ \E c \in cfgs :
          /\ n_qubits = c[1]
          /\ n_levels = c[2]
          /\ psi = NewState(c[1], c[2]).psi
    /\ den = 1
    /\ normalized = TRUE
    /\ steps = 0
    /\ last = NoCall
    /\ history = <<>>
    /\ ServicesIdle

Init == InitEngine("bq", Configs)

H(q) == steps < MaxGates /\ DoH(q)

X(q) == steps < MaxGates /\ DoX(q)

Z(q) == steps < MaxGates /\ DoZ(q)

Rz(q, m) == steps < MaxGates /\ DoRz(q, m)

CX(c, t) == steps < MaxGates /\ c # t /\ DoCX(c, t)

Bell == steps < MaxGates /\ n_qubits >= 2 /\ DoBell

Ghz == steps < MaxGates /\ DoGhz

Next ==
    \/ \E q \in Qudits : H(q)
    \/ \E q \in Qudits : X(q)
    \/ \E q \in Qudits : Z(q)
    \/ \E q \in Qudits, m \in ThetaUnits : Rz(q, m)
    \/ \E c \in Qudits, t \in Qudits : CX(c, t)
    \/ Bell
    \/ Ghz

Spec == Init /\ [][Next]_vars

----------------------------------------------------------------------------
(* Algorithm.grover_search *)

(* pi^2 = PiSqNum / PiSqDen, to six digits *)
PiSqNum == 98696
PiSqDen == 10000

(* int(np.pi / 4 * np.sqrt(N)): the largest k with 16 k^2 <= pi^2 N *)
GroverIterations(N) ==
    CHOOSE k \in 0..N :
        /\ 16 * PiSqDen * k * k <= PiSqNum * N
        /\ 16 * PiSqDen * (k + 1) * (k + 1) > PiSqNum * N

RECURSIVE HAll(_, _, _, _)
(* for i in range(n): Gate.H(i, state), from i = from *)
HAll(st, from, n, levels) ==
    IF from >= n THEN st
    ELSE LET nx == GateH(from, st, n, levels)
         IN  IF nx.den > 0 THEN HAll(nx, from + 1, n, levels) ELSE nx

(* state.psi[target] *= -1 *)
Oracle(st, target) ==
    [st EXCEPT !.psi = [st.psi EXCEPT ![target] = RNeg(st.psi[target])]]

(* state.psi *= -1 *)
NegAll(st, dim) ==
    [st EXCEPT !.psi = Vec([k \in 0..(dim - 1) |-> RNeg(st.psi[k])], dim)]

(* the diffusion step reduced to the sign flip of amplitude 0 *)
DiffusionFlipOnly(st, n, levels) == Oracle(st, 0)

(* the diffusion operator of one Grover iteration *)
Diffusion(st, n, levels) ==
    HAll(Oracle(NegAll(HAll(st, 0, n, levels), Pow(levels, n)), 0), 0, n, levels)

RECURSIVE GroverLoop(_, _, _, _, _)
(* for _ in range(iterations): oracle, diffusion *)
GroverLoop(st, target, iterations, n, levels) ==
    IF iterations <= 0 THEN st
    ELSE LET nx == Diffusion(Oracle(st, target), n, levels)
         IN  IF nx.den > 0
             THEN GroverLoop(nx, target, iterations - 1, n, levels)
             ELSE nx

(* the iteration count taken from twice the angle *)
GroverCountDoubled(iterations, N) ==
    IF iterations = -1 THEN 2 * GroverIterations(N) ELSE iterations

(* iterations = None (here -1) means the default count *)
GroverCount(iterations, N) ==
    IF iterations = -1 THEN GroverIterations(N) ELSE iterations

grover_search(st, target, iterations, n, levels) ==
    GroverLoop(HAll(st, 0, n, levels), target,
               GroverCount(iterations, Pow(levels, n)), n, levels)

----------------------------------------------------------------------------
(* SpecGrover: the diffusion step on given amplitude vectors, and           *)
(* grover_search on a fresh state, levels = 2                               *)

AmpInputs == {RZero, ROne, RI}

InitGrover ==
    /\ eng = "bq"
    /\ n_levels = 2
    /\ n_qubits \in 1..MaxGroverQubits
    /\ \/ psi = NewState(n_qubits, 2).psi
       \/ /\ n_qubits <= MaxDiffQubits
          /\ psi \in [0..(Pow(2, n_qubits) - 1) -> AmpInputs]
    /\ den = 1
    /\ normalized = TRUE
    /\ steps = 0
    /\ last = NoCall
    /\ history = <<>>
    /\ ServicesIdle

Diffuse ==
    /\ steps = 0
    /\ Becomes(Diffusion(St, n_qubits, n_levels), Call("diffusion", -1, -1, 0))

Grover(target, iterations) ==
    /\ steps = 0
    /\ psi = NewState(n_qubits, n_levels).psi
    /\ Becomes(grover_search(St, target, iterations, n_qubits, n_levels),
               Call("grover", target, iterations, 0))

NextGrover ==
    \/ Diffuse
    \/ \E target \in 0..(Dim - 1) :
          \E iterations \in {-1} \cup (0..(GroverIterations(Dim) + 1)) :
             Grover(target, iterations)

SpecGrover == InitGrover /\ [][NextGrover]_vars

----------------------------------------------------------------------------
(* blackroad_quantum.py: QuantumState.measure *)

(* if not self._normalized: self.normalize() *)
BQMeasureState(st, dim) ==
    IF ~st.normalized THEN Normalize(st, dim) ELSE st

RECURSIVE Draws(_, _)
(* the sequences of `shots` outcomes np.random.choice can return: every      *)
(* outcome is drawn from the indices of non-zero probability                 *)
Draws(S, shots) ==
    IF shots = 0 THEN {<<>>}
    ELSE {Append(o, r) : o \in Draws(S, shots - 1), r \in S}

----------------------------------------------------------------------------
(* blackroad_quantum_core.py: QuantumGate, QuantumState, QuantumCircuit *)

hadamard ==
    [dim |-> 2, den |-> 2,
     at |-> [i \in 0..1 |-> [j \in 0..1 |-> IF i = 1 /\ j = 1 THEN RInt(-1) ELSE ROne]]]

pauli_x ==
    [dim |-> 2, den |-> 1,
     at |-> [i \in 0..1 |-> [j \in 0..1 |-> IF i # j THEN ROne ELSE RZero]]]

pauli_y ==
    [dim |-> 2, den |-> 1,
     at |-> [i \in 0..1 |-> [j \in 0..1 |->
                IF i = j THEN RZero ELSE IF i = 0 THEN RNeg(RI) ELSE RI]]]

pauli_z ==
    [dim |-> 2, den |-> 1,
     at |-> [i \in 0..1 |-> [j \in 0..1 |->
                IF i # j THEN RZero ELSE IF i = 0 THEN ROne ELSE RInt(-1)]]]

CoreGate(name) ==
    CASE name = "h" -> hadamard
      [] name = "x" -> pauli_x
      [] name = "y" -> pauli_y
      [] name = "z" -> pauli_z

RECURSIVE CoreFullGate(_, _, _, _, _)
(* full_gate = eye(1); for i in range(n): kron(full_gate, gate or eye(2)) *)
CoreFullGate(gate, target, i, n, full_gate) ==
    IF i >= n THEN full_gate
    ELSE CoreFullGate(gate, target, i + 1, n,
                      Kron(full_gate, IF i = target THEN gate ELSE Eye(2)))

(* QuantumCircuit._apply_single_qubit_gate *)
apply_single_qubit_gate(gate, target, st, n) ==
    ApplyFull(CoreFullGate(gate, target, 0, n, Eye(1)), st)

(* bits[j] = (i >> j) & 1 *)
Bit(i, j) == (i \div Pow(2, j)) % 2

(* position in a list of length n that the Python index j designates *)
ListIndex(j, n) == IF j < 0 THEN j + n ELSE j

(* new_idx of basis index i in _apply_two_qubit_gate, after its control/target swap *)
CoreNewIdx(i, control, target, n) ==
    LET c == ListIndex(IF control > target THEN target ELSE control, n)
        t == ListIndex(IF control > target THEN control ELSE target, n)
    IN  IF Bit(i, c) = 1
        THEN i + (1 - 2 * Bit(i, t)) * Pow(2, t)
        ELSE i

(* bits[control] or new_bits[target] raises IndexError: list index out of range *)
CoreCnotRaises(control, target, n) ==
    \/ ListIndex(control, n) \notin 0..(n - 1)
    \/ ListIndex(target, n) \notin 0..(n - 1)

(* QuantumCircuit._apply_two_qubit_gate, when no list index is out of range *)
apply_two_qubit_gate(control, target, st, n) ==
    LET dim == Pow(2, n)
        new_state ==
            Vec([k \in 0..(dim - 1) |->
                    RSumTo([i \in 0..(dim - 1) |->
                               IF CoreNewIdx(i, control, target, n) = k
                               THEN st.psi[i] ELSE RZero], dim)], dim)
    IN  [st EXCEPT !.psi = new_state]

(* the collapse always landing on basis state 0 *)
CoreCollapseToZero(result, dim) ==
    [psi |-> Vec([k \in 0..(dim - 1) |-> IF k = 0 THEN ROne ELSE RZero], dim),
     den |-> 1,
     normalized |-> TRUE]

(* QuantumState.measure of the core: the state collapsed to basis state result *)
CoreCollapse(result, dim) ==
    [psi |-> Vec([k \in 0..(dim - 1) |-> IF k = result THEN ROne ELSE RZero], dim),
     den |-> 1,
     normalized |-> TRUE]

(* the shots loop of QuantumCircuit.measure: each shot starts from a copy of  *)
(* the original state and collapses it                                       *)
CoreAfterShots(orig, outs, dim) ==
    IF outs = <<>> THEN orig ELSE CoreCollapse(outs[Len(outs)], dim)

(* QuantumCircuit.measure without its last assignment *)
CoreKeepCollapsed(orig, cur) == cur

(* self.state.state_vector = original_state *)
CoreRestore(orig, cur) == orig

CoreMeasureState(orig, outs, dim) ==
    CoreRestore(orig, CoreAfterShots(orig, outs, dim))

----------------------------------------------------------------------------
(* SpecMeasure: a few gate calls on either engine, then repeated-shot        *)
(* measurement                                                               *)

CoreConfigs == {c \in Configs : c[2] = 2}

InitMeasure == InitEngine("bq", Configs) \/ InitEngine("core", CoreConfigs)

PrepH(q) == steps < MaxPrep /\ eng = "bq" /\ DoH(q)

PrepX(q) == steps < MaxPrep /\ eng = "bq" /\ DoX(q)

PrepZ(q) == steps < MaxPrep /\ eng = "bq" /\ DoZ(q)

PrepRz(q, m) == steps < MaxPrep /\ eng = "bq" /\ DoRz(q, m)

PrepCX(c, t) == steps < MaxPrep /\ eng = "bq" /\ c # t /\ DoCX(c, t)

CoreSingle(name, q) ==
    /\ steps < MaxPrep
    /\ eng = "core"
    /\ Logged(apply_single_qubit_gate(CoreGate(name), q, St, n_qubits),
              FALSE, name, q, -1)

CoreCnot(c, t) ==
    /\ steps < MaxPrep
    /\ eng = "core"
    /\ c # t
    /\ Logged(apply_two_qubit_gate(c, t, St, n_qubits), FALSE, "cnot", c, t)

(* QuantumState.measure(shots) of blackroad_quantum: np.random.choice raises *)
(* when the probabilities do not sum to 1                                    *)
MeasureBQ(shots) ==
    /\ steps < MaxCalls
    /\ eng = "bq"
    /\ LET st == BQMeasureState(St, Dim)
       IN  IF IsUnit(st.psi, st.den, Dim)
           THEN \E outs \in Draws(Support(st.psi, Dim), shots) :
                   Becomes(st, [Call("measure", shots, -1, 0) EXCEPT !.out = outs])
           ELSE Becomes(st, [Call("measure", shots, -1, 0) EXCEPT !.raised = TRUE])

(* QuantumCircuit.measure(shots) of the core engine *)
MeasureCore(shots) ==
    /\ steps < MaxCalls
    /\ eng = "core"
    /\ IF IsUnit(psi, den, Dim) \/ shots = 0
       THEN \E outs \in Draws(Support(psi, Dim), shots) :
               Becomes(CoreMeasureState(St, outs, Dim),
                       [Call("measure", shots, -1, 0) EXCEPT !.out = outs])
       ELSE Becomes(St, [Call("measure", shots, -1, 0) EXCEPT !.raised = TRUE])

(* QuantumState.measure() of the core engine: one draw, the state collapses *)
Collapse ==
    /\ steps < MaxCalls
    /\ eng = "core"
    /\ IF IsUnit(psi, den, Dim)
       THEN \E result \in Support(psi, Dim) :
               Becomes(CoreCollapse(result, Dim),
                       [Call("collapse", -1, -1, 0) EXCEPT !.out = <<result>>])
       ELSE Becomes(St, [Call("collapse", -1, -1, 0) EXCEPT !.raised = TRUE])

NextMeasure ==
    \/ \E q \in Qudits : PrepH(q)
    \/ \E q \in Qudits : PrepX(q)
    \/ \E q \in Qudits : PrepZ(q)
    \/ \E q \in Qudits, m \in ThetaUnits : PrepRz(q, m)
    \/ \E c \in Qudits, t \in Qudits : PrepCX(c, t)
    \/ \E q \in Qudits, name \in {"h", "x", "y", "z"} : CoreSingle(name, q)
    \/ \E c \in Qudits, t \in Qudits : CoreCnot(c, t)
    \/ \E shots \in 0..MaxShots : MeasureBQ(shots)
    \/ \E shots \in 0..MaxShots : MeasureCore(shots)
    \/ Collapse

SpecMeasure == InitMeasure /\ [][NextMeasure]_vars

----------------------------------------------------------------------------
(* blackroad_quantum_core.py: QuantumAlgorithms; bloche.py and                *)
(* bloche_ultimate.py: Bloche                                                 *)

RECURSIVE CoreGhzLoop(_, _, _)
(* for i in range(from, n): qc.cnot(0, i) *)
CoreGhzLoop(st, from, n) ==
    IF from >= n THEN st
    ELSE LET nx == apply_two_qubit_gate(0, from, st, n)
         IN  IF nx.den > 0 THEN CoreGhzLoop(nx, from + 1, n) ELSE nx

(* QuantumAlgorithms.ghz_state(n); bell_state() is the same circuit on 2 qubits *)
core_ghz_state(st, n) ==
    CoreGhzLoop(apply_single_qubit_gate(hadamard, 0, st, n), 1, n)

(* the operations the circuit of ghz_state(n) has logged *)
CoreGhzLog(n) ==
    <<Entry("h", 0, -1)>> \o [k \in 1..(n - 1) |-> Entry("cnot", 0, k)]

(* Bloche.CX: control bit c, target bit t of the basis index, bit 0 the       *)
(* least significant; for c < t this is what the core does                    *)
bloche_CX(c, t, st, n) ==
    IF c < t THEN apply_two_qubit_gate(c, t, st, n)
    ELSE LET dim == Pow(2, n)
             j(i) == IF Bit(i, c) = 1 THEN i + (1 - 2 * Bit(i, t)) * Pow(2, t) ELSE i
         IN  [st EXCEPT !.psi =
                Vec([k \in 0..(dim - 1) |->
                        RSumTo([i \in 0..(dim - 1) |->
                                   IF j(i) = k THEN st.psi[i] ELSE RZero], dim)], dim)]

(* gate[0, 0], the first component of the entry bloche_ultimate logs *)
Gate00(name) ==
    CASE CoreGate(name).at[0][0] = RZero -> "0"
      [] CoreGate(name).at[0][0] = ROne /\ CoreGate(name).den = 1 -> "1"
      [] CoreGate(name).at[0][0] = ROne /\ CoreGate(name).den = 2 -> "0.7071"

BlocheEngines == {"bloche", "ultimate"}

InitCircuit ==
    \E e \in {"core"} \cup BlocheEngines : InitEngine(e, CoreConfigs)

(* QuantumAlgorithms.bell_state(): a new circuit of 2 qubits *)
CoreBell ==
    /\ steps = 0 /\ eng = "core" /\ n_qubits = 2
    /\ BecomesLogged(core_ghz_state(St, 2), Call("bell_state", -1, -1, 0), CoreGhzLog(2))

(* QuantumAlgorithms.ghz_state(n): a new circuit of n qubits *)
CoreGhz ==
    /\ steps = 0 /\ eng = "core"
    /\ BecomesLogged(core_ghz_state(St, n_qubits), Call("ghz_state", n_qubits, -1, 0),
                     CoreGhzLog(n_qubits))

(* Bloche.H / X / Y / Z; bloche_ultimate appends (gate[0,0], q) *)
BlocheGate(name, q) ==
    /\ steps < MaxPrep
    /\ eng \in BlocheEngines
    /\ BecomesLogged(apply_single_qubit_gate(CoreGate(name), q, St, n_qubits),
                     Call(name, q, -1, 0),
                     IF eng = "ultimate"
                     THEN Record(history, Entry(Gate00(name), q, -1)) ELSE history)

(* Bloche.CX; bloche_ultimate appends ('CX', c, t) *)
BlocheCX(c, t) ==
    /\ steps < MaxPrep
    /\ eng \in BlocheEngines
    /\ c # t
    /\ BecomesLogged(bloche_CX(c, t, St, n_qubits), Call("CX", c, t, 0),
                     IF eng = "ultimate"
                     THEN Record(history, Entry("CX", c, t)) ELSE history)

NextCircuit ==
    \/ \E q \in Qudits, name \in {"h", "x", "y", "z"} : CoreSingle(name, q)
    \/ \E c \in Qudits, t \in Qudits : CoreCnot(c, t)
    \/ CoreBell
    \/ CoreGhz
    \/ \E q \in Qudits, name \in {"h", "x", "y", "z"} : BlocheGate(name, q)
    \/ \E c \in Qudits, t \in Qudits : BlocheCX(c, t)

SpecCircuit == InitCircuit /\ [][NextCircuit]_vars

----------------------------------------------------------------------------
(* SpecCalls: construction, the fluent interface of BlackRoadQuantum, Gate.Rz *)
(* and the gate methods of the core QuantumCircuit, called with arguments     *)
(* inside and outside their intended ranges                                   *)

(* QuantumState.__init__ raises: levels ** n is a float for n < 0 and         *)
(* np.zeros rejects it (0 ** n divides by zero); for levels = 0 and n > 0     *)
(* the vector is empty and psi[0] = 1.0 is out of bounds                      *)
NewRaises(n, levels) == n < 0 \/ (levels = 0 /\ n > 0)

(* number of rows of the matrix _expand_gate returns for a levels x levels gate *)
ExpandedDim(qubit, n, levels) ==
    (IF qubit > 0 THEN Pow(levels, qubit) * levels ELSE levels)
    * (IF qubit < n - 1 THEN Pow(levels, n - qubit - 1) ELSE 1)

(* full_matrix @ state.psi raises ValueError when the shapes do not match *)
MatmulRaises(qubit, n, levels) == ExpandedDim(qubit, n, levels) # Pow(levels, n)

(* the oracle never failing *)
OracleNeverRaises(target, iterations, dim) == FALSE

(* state.psi[target] *= -1 raises IndexError when there is an iteration and   *)
(* target is not an index of the vector                                       *)
OracleRaises(target, iterations, dim) ==
    iterations >= 1 /\ target \notin (-dim)..(dim - 1)

LevelArgs == {0, 1} \cup Levels

QuditArgs == (-1)..n_qubits

NotConstructed == [NoCall EXCEPT !.op = "none"]

InitCalls ==
    \/ /\ eng = "bq"
       /\ n_qubits = 0 /\ n_levels = 0
       /\ psi = <<>> /\ den = 1 /\ normalized = FALSE
       /\ steps = 0
       /\ last = NotConstructed
       /\ history = <<>>
       /\ ServicesIdle
    \/ InitEngine("core", CoreConfigs)

(* BlackRoadQuantum(n, levels, use_hardware=False) *)
New(n, levels) ==
    /\ eng = "bq"
    /\ last = NotConstructed
    /\ IF NewRaises(n, levels)
       THEN /\ last' = [NoCall EXCEPT !.a = n, !.b = levels, !.raised = TRUE]
            /\ UNCHANGED <<n_qubits, n_levels, psi, den, normalized>>
       ELSE /\ Pow(levels, n) <= MaxDim
            /\ n_qubits' = n
            /\ n_levels' = levels
            /\ psi' = NewState(n, levels).psi
            /\ den' = 1
            /\ normalized' = TRUE
            /\ last' = [NoCall EXCEPT !.a = n, !.b = levels]
    /\ history' = <<>>
    /\ UNCHANGED <<eng, steps, services>>

(* the calls below are explored on states of at least one qudit of at least   *)
(* two levels                                                                 *)
Ready(e) == eng = e /\ n_qubits >= 1 /\ n_levels >= 2 /\ steps < MaxFluent

FluentH(q) ==
    /\ Ready("bq")
    /\ IF MatmulRaises(q, n_qubits, n_levels)
       THEN Logged(St, TRUE, "H", q, -1)
       ELSE Logged(GateH(q, St, n_qubits, n_levels), FALSE, "H", q, -1)

FluentX(q) ==
    /\ Ready("bq")
    /\ IF MatmulRaises(q, n_qubits, n_levels)
       THEN Logged(St, TRUE, "X", q, -1)
       ELSE Logged(GateX(q, St, n_qubits, n_levels), FALSE, "X", q, -1)

FluentZ(q) ==
    /\ Ready("bq")
    /\ IF MatmulRaises(q, n_qubits, n_levels)
       THEN Logged(St, TRUE, "Z", q, -1)
       ELSE Logged(GateZ(q, St, n_qubits, n_levels), FALSE, "Z", q, -1)

(* Gate.Rz(q, theta, state), called on the state of the BlackRoadQuantum object *)
CallRz(q, m) ==
    /\ Ready("bq")
    /\ IF MatmulRaises(q, n_qubits, n_levels)
       THEN Becomes(St, [Call("Rz", q, -1, m) EXCEPT !.raised = TRUE])
       ELSE Becomes(GateRz(q, m, St, n_qubits, n_levels), Call("Rz", q, -1, m))

FluentCX(c, t) ==
    /\ Ready("bq")
    /\ IF CXRaises(c, t, n_qubits, n_levels)
       THEN Logged(St, TRUE, "CX", c, t)
       ELSE Logged(GateCX(c, t, St, n_qubits, n_levels), FALSE, "CX", c, t)

(* bell(): Gate.H(0), then Gate.CX(0, 1), which raises on a single qudit *)
FluentBell ==
    /\ Ready("bq")
    /\ LET h == GateH(0, St, n_qubits, n_levels)
       IN  IF CXRaises(0, 1, n_qubits, n_levels)
           THEN Logged(h, TRUE, "bell", -1, -1)
           ELSE Logged(GateCX(0, 1, h, n_qubits, n_levels), FALSE, "bell", -1, -1)

FluentGhz ==
    /\ Ready("bq")
    /\ Logged(ghz_state(St, n_qubits, n_levels), FALSE, "ghz", -1, -1)

(* grover(target): the Hadamards on every qudit are applied before the first  *)
(* oracle step can raise                                                      *)
FluentGrover(target) ==
    /\ Ready("bq")
    /\ IF OracleRaises(target, GroverCount(-1, Dim), Dim)
       THEN Logged(HAll(St, 0, n_qubits, n_levels), TRUE, "grover", target, -1)
       ELSE /\ n_levels = 2
            /\ Logged(grover_search(St, target, -1, n_qubits, n_levels),
                      FALSE, "grover", target, -1)

(* measure(shots): returns self.state.measure(shots) *)
FluentMeasure(shots) ==
    /\ Ready("bq")
    /\ LET st == BQMeasureState(St, Dim)
       IN  IF IsUnit(st.psi, st.den, Dim)
           THEN \E outs \in Draws(Support(st.psi, Dim), shots) :
                   Becomes(st, [Call("measure", shots, -1, 0) EXCEPT !.out = outs])
           ELSE Becomes(st, [Call("measure", shots, -1, 0) EXCEPT !.raised = TRUE])

(* QuantumCircuit.h / x / y / z *)
CircuitSingle(name, q) ==
    /\ Ready("core")
    /\ Logged(apply_single_qubit_gate(CoreGate(name), q, St, n_qubits),
              FALSE, name, q, -1)

(* QuantumCircuit.cnot *)
CircuitCnot(c, t) ==
    /\ Ready("core")
    /\ c # t
    /\ IF CoreCnotRaises(c, t, n_qubits)
       THEN Logged(St, TRUE, "cnot", c, t)
       ELSE Logged(apply_two_qubit_gate(c, t, St, n_qubits), FALSE, "cnot", c, t)

NextCalls ==
    \/ \E n \in (-1)..MaxQubits, levels \in LevelArgs : New(n, levels)
    \/ \E q \in QuditArgs : FluentH(q)
    \/ \E q \in QuditArgs : FluentX(q)
    \/ \E q \in QuditArgs : FluentZ(q)
    \/ \E q \in QuditArgs, m \in ThetaUnits : CallRz(q, m)
    \/ \E c \in QuditArgs, t \in QuditArgs : FluentCX(c, t)
    \/ FluentBell
    \/ FluentGhz
    \/ \E target \in 0..Dim : FluentGrover(target)
    \/ FluentMeasure(1)
    \/ \E q \in QuditArgs, name \in {"h", "x", "y", "z"} : CircuitSingle(name, q)
    \/ \E c \in QuditArgs, t \in QuditArgs : CircuitCnot(c, t)

SpecCalls == InitCalls /\ [][NextCalls]_vars

----------------------------------------------------------------------------
(* blackroad_quantum.py: HardwareInterface *)

(* hostnames of _init_default_network, in list order *)
Devices == <<"alice", "octavia", "lucidia", "shellfish">>

(* what subprocess.run can do: return a result (exit status, captured        *)
(* stdout) or raise (timeout expired, ssh not found, interrupt, ...)         *)
Returned(rc, stdout) == [kind |-> "returned", rc |-> rc, stdout |-> stdout]
Raised == [kind |-> "raised", rc |-> -1, stdout |-> ""]

RemoteOutcomes ==
    {Raised, Returned(0, " online "), Returned(0, ""), Returned(255, "online"),
     Returned(1, " denied ")}

(* str.strip() on the captured outputs above *)
Strip(stdout) ==
    CASE stdout = " online " -> "online"
      [] stdout = " denied " -> "denied"
      [] OTHER -> stdout

(* 'online' in output *)
HasOnline(output) == output = "online"

(* ssh_exec whose except clause lets the exception through *)
ssh_exec_reraising(outcome) ==
    IF outcome.kind = "raised"
    THEN [output |-> "", success |-> FALSE, raised |-> TRUE]
    ELSE [output |-> Strip(outcome.stdout), success |-> outcome.rc = 0, raised |-> FALSE]

(* HardwareInterface.ssh_exec: the bare except turns every exception into ("", False) *)
ssh_exec(outcome) ==
    IF outcome.kind = "raised"
    THEN [output |-> "", success |-> FALSE, raised |-> FALSE]
    ELSE [output |-> Strip(outcome.stdout), success |-> outcome.rc = 0, raised |-> FALSE]

RECURSIVE ActiveFrom(_, _)
(* the loop of get_active_devices from device k on: the devices appended to  *)
(* active, and whether an ssh_exec call raised and ended the loop            *)
ActiveFrom(k, outcomes) ==
    IF k > Len(Devices) THEN [active |-> <<>>, raised |-> FALSE]
    ELSE LET r == ssh_exec(outcomes[k])
         IN  IF r.raised THEN [active |-> <<>>, raised |-> TRUE]
             ELSE LET rest == ActiveFrom(k + 1, outcomes)
                  IN  [active |-> (IF r.success /\ HasOnline(r.output)
                                   THEN <<Devices[k]>> ELSE <<>>) \o rest.active,
                       raised |-> rest.raised]

HardwareCall(op, outcomes, out, raised) ==
    /\ steps < MaxHardwareCalls
    /\ eng = "hw"
    /\ steps' = steps + 1
    /\ last' = [op |-> op, a |-> -1, b |-> -1, th |-> 0,
                pre |-> outcomes, preden |-> 0, out |-> out, raised |-> raised]
    /\ UNCHANGED <<eng, n_qubits, n_levels, psi, den, normalized, history, services>>

(* ssh_exec(device, cmd) *)
SshExec(outcome) ==
    LET r == ssh_exec(outcome)
    IN  HardwareCall("ssh_exec", <<outcome>>,
                     IF r.raised THEN <<>> ELSE <<r.output, r.success>>, r.raised)

(* set_photon(device, led, brightness): the result of ssh_exec is dropped *)
SetPhoton(outcome) ==
    HardwareCall("set_photon", <<outcome>>, <<>>, ssh_exec(outcome).raised)

(* get_active_devices(): one ssh_exec per device *)
GetActiveDevices(outcomes) ==
    LET r == ActiveFrom(1, outcomes)
    IN  HardwareCall("get_active_devices", outcomes,
                     IF r.raised THEN <<>> ELSE r.active, r.raised)

MaxWalkSteps == 3

(* the set_photon calls of one step of the walk over the active devices: the *)
(* device of the step to 255, then every other device to 0                   *)
WalkStep(devices, step) ==
    LET device == devices[(step % Len(devices)) + 1]
    IN  <<<<device, 255>>>> \o
        [p \in 1..(Len(devices) - 1) |->
            <<SelectSeq(devices, LAMBDA other : other # device)[p], 0>>]

RECURSIVE WalkFrom(_, _, _)
(* the steps of the walk from step on *)
WalkFrom(devices, step, walk_steps) ==
    IF step >= walk_steps THEN << >>
    ELSE WalkStep(devices, step) \o WalkFrom(devices, step + 1, walk_steps)

(* Algorithm.quantum_walk(hardware, steps): the set_photon calls it makes,   *)
(* in order. With no active device, step % len(devices) of the first step    *)
(* divides by zero.                                                          *)
quantum_walk(outcomes, walk_steps) ==
    LET r == ActiveFrom(1, outcomes)
        devices == r.active
    IN  IF r.raised \/ (walk_steps > 0 /\ Len(devices) = 0)
        THEN [photons |-> << >>, raised |-> TRUE]
        ELSE [photons |-> WalkFrom(devices, 0, walk_steps)
                             \o [p \in 1..Len(devices) |-> <<devices[p], 128>>],
              raised |-> FALSE]

(* Algorithm.quantum_walk(hardware, walk_steps) *)
QuantumWalk(outcomes, walk_steps) ==
    LET r == quantum_walk(outcomes, walk_steps)
    IN  /\ steps < MaxHardwareCalls
        /\ eng = "hw"
        /\ steps' = steps + 1
        /\ last' = [op |-> "quantum_walk", a |-> walk_steps, b |-> -1, th |-> 0,
                    pre |-> outcomes, preden |-> 0, out |-> r.photons, raised |-> r.raised]
        /\ UNCHANGED <<eng, n_qubits, n_levels, psi, den, normalized, history, services>>

(* HardwareInterface(): the four default devices, nothing called yet *)
InitHardware ==
    /\ eng = "hw"
    /\ n_qubits = 0 /\ n_levels = 0
    /\ psi = <<>> /\ den = 1 /\ normalized = FALSE
    /\ steps = 0
    /\ last = NotConstructed
    /\ history = <<>>
    /\ ServicesIdle

NextHardware ==
    \/ \E outcome \in RemoteOutcomes : SshExec(outcome)
    \/ \E outcome \in RemoteOutcomes : SetPhoton(outcome)
    \/ \E outcomes \in [1..Len(Devices) -> RemoteOutcomes] : GetActiveDevices(outcomes)
    \/ \E outcomes \in [1..Len(Devices) -> RemoteOutcomes], walk_steps \in 0..MaxWalkSteps :
          QuantumWalk(outcomes, walk_steps)

SpecHardware == InitHardware /\ [][NextHardware]_vars

----------------------------------------------------------------------------
(* quantum_memory.py: QuantumMemory *)

(* a call on a service: its name, its arguments, what it returned *)
ServiceCall(op, args, out, raised) ==
    [op |-> op, a |-> -1, b |-> -1, th |-> 0,
     pre |-> args, preden |-> 0, out |-> out, raised |-> raised]

(* search takes the Grover path for journals of 64 to 1024 entries *)
QuantumMin == 64
QuantumMax == 1024

MaxAppends == 2

Tags == {"a", "b"}
Queries == {"tag:a", "tag:b"}

(* one journal line: its position when written, and its "tags" field *)
MemoryEntry(k, tags) == [id |-> k, tags |-> tags]

(* str.split(",") on the tags fields written here *)
Split(tags) ==
    CASE tags = "" -> {""}
      [] tags = "a" -> {"a"}
      [] tags = "b" -> {"b"}
      [] tags = "a,b" -> {"a", "b"}

(* _parse_query: the text before the first colon, the text after it *)
parse_query(query) ==
    CASE query = "tag:a" -> [field |-> "tag", value |-> "a"]
      [] query = "tag:b" -> [field |-> "tag", value |-> "b"]

(* _matches, for the tag field *)
matches(entry, field, value) ==
    CASE field = "tag" -> value \in Split(entry.tags)

(* _classical_search: the matching entries, in journal order *)
classical_search(entries, field, value) ==
    SelectSeq(entries, LAMBDA entry : matches(entry, field, value))

(* _quantum_search: with no matching entry it returns [] before the Grover   *)
(* loop; with one, the gates run on ceil(log2 n) qubits of two levels, all   *)
(* in range, measure returns an ndarray, and result.items() raises           *)
(* AttributeError before anything is returned                                *)
quantum_search(entries, field, value) ==
    LET targets == {i \in 1..Len(entries) : matches(entries[i], field, value)}
    IN  IF targets = {}
        THEN [raised |-> FALSE, result |-> << >>]
        ELSE [raised |-> TRUE, result |-> << >>]

(* hashlib.sha256(query.encode()).hexdigest() *)
Sha256(query) == <<"sha256", query>>

(* the cache is a dict: a set of (key, result) pairs, one pair a key *)
CacheHas(cache, key) == \E pair \in cache : pair[1] = key
CacheGet(cache, key) == (CHOOSE pair \in cache : pair[1] = key)[2]
CachePut(cache, key, result) ==
    {pair \in cache : pair[1] # key} \cup {<<key, result>>}

(* search that looks nothing up in the cache *)
search_uncached(mem, query, use_quantum) ==
    LET entries == mem.journal
        parsed == parse_query(query)
        grover == use_quantum /\ QuantumMin <= Len(entries) /\ Len(entries) <= QuantumMax
        found == IF grover
                 THEN quantum_search(entries, parsed.field, parsed.value)
                 ELSE [raised |-> FALSE,
                       result |-> classical_search(entries, parsed.field, parsed.value)]
    IN  IF Len(entries) = 0
        THEN [raised |-> FALSE, result |-> << >>, mem |-> mem, hit |-> FALSE]
        ELSE IF found.raised
        THEN [raised |-> TRUE, result |-> << >>, mem |-> mem, hit |-> FALSE]
        ELSE [raised |-> FALSE, result |-> found.result, hit |-> FALSE,
              mem |-> [mem EXCEPT !.cache = CachePut(@, Sha256(query), found.result)]]

(* QuantumMemory.search(query, use_quantum) *)
search(mem, query, use_quantum) ==
    LET cache_key == Sha256(query)
    IN  IF CacheHas(mem.cache, cache_key)
        THEN [raised |-> FALSE, result |-> CacheGet(mem.cache, cache_key),
              mem |-> mem, hit |-> TRUE]
        ELSE search_uncached(mem, query, use_quantum)

(* journals of the sizes around the two thresholds; the entries tagged "a"   *)
(* are none, the first, the last, or all of them                             *)
JournalSizes == {0, 1, QuantumMin - 1, QuantumMin, QuantumMax, QuantumMax + 1}
Patterns == {"none", "first", "last", "all"}

TagsAt(pattern, k, n) ==
    CASE pattern = "none" -> "b"
      [] pattern = "first" -> IF k = 1 THEN "a" ELSE "b"
      [] pattern = "last" -> IF k = n THEN "a,b" ELSE ""
      [] pattern = "all" -> "a"

JournalOf(n, pattern) == [k \in 1..n |-> MemoryEntry(k, TagsAt(pattern, k, n))]

InitMemory ==
    /\ eng = "memory"
    /\ n_qubits = 0 /\ n_levels = 0
    /\ psi = <<>> /\ den = 1 /\ normalized = FALSE
    /\ steps = 0
    /\ last = NotConstructed
    /\ history = <<>>
    /\ \E n \in JournalSizes, pattern \in Patterns :
          memory = NewMemory(JournalOf(n, pattern))
    /\ node_health = InitialHealth
    /\ current_node_index = 0
    /\ node_status = [name \in NodeNames |-> "up"]

(* qm.search(query, use_quantum) *)
Search(query, use_quantum) ==
    LET r == search(memory, query, use_quantum)
    IN  /\ eng = "memory"
        /\ memory' = r.mem
        /\ last' = ServiceCall("search", <<query, use_quantum, r.hit>>, r.result, r.raised)
        /\ UNCHANGED <<eng, n_qubits, n_levels, psi, den, normalized, steps, history,
                       node_health, current_node_index, node_status>>

(* another process appends a line to master-journal.jsonl *)
AppendEntry(tags) ==
    /\ eng = "memory"
    /\ steps < MaxAppends
    /\ steps' = steps + 1
    /\ memory' = [memory EXCEPT
                    !.journal = Append(@, MemoryEntry(Len(@) + 1, tags))]
    /\ last' = ServiceCall("append", <<tags>>, << >>, FALSE)
    /\ UNCHANGED <<eng, n_qubits, n_levels, psi, den, normalized, history,
                   node_health, current_node_index, node_status>>

NextMemory ==
    \/ \E query \in Queries, use_quantum \in BOOLEAN : Search(query, use_quantum)
    \/ \E tags \in Tags : AppendEntry(tags)

SpecMemory == InitMemory /\ [][NextMemory]_vars

----------------------------------------------------------------------------
(* quantum_memory.py: QuantumMemory.distribute_tasks *)

MaxTasks == 3
MaxAgents == 2

Priorities == {1, 2}
SkillSets == {{}, {"q"}, {"q", "ml"}}
CapabilitySets == {{}, {"q"}, {"ml"}}

(* a task dict and an agent dict; a task's id is its place in the argument,  *)
(* an agent's id its place in the agent list                                 *)
Task(id, priority, skills) == [id |-> id, priority |-> priority, skills |-> skills]
Agent(id, capabilities) == [id |-> id, capabilities |-> capabilities]

(* _skill_match as a fraction: 0.5 when the task asks for no skill, else the *)
(* share of the task's skills the agent has                                  *)
skill_match(task, agent) ==
    IF task.skills = {}
    THEN [num |-> 1, den |-> 2]
    ELSE [num |-> Cardinality(task.skills \cap agent.capabilities),
          den |-> Cardinality(task.skills)]

(* score = skill_match - 0.1 * workload, times 10 * den; den is the same for *)
(* every agent of one task. For the sizes explored the float comparison in   *)
(* the code orders the scores as these integers do.                          *)
Score(task, agent, workload) ==
    LET m == skill_match(task, agent)
    IN  10 * m.num - workload * m.den

(* sorted(tasks, key=priority, reverse=True) is stable: one step inserts a   *)
(* task behind the tasks of at least its priority                            *)
InsertByPriority(sorted, task) ==
    SelectSeq(sorted, LAMBDA t : t.priority >= task.priority)
        \o <<task>>
        \o SelectSeq(sorted, LAMBDA t : t.priority < task.priority)

RECURSIVE SortedTasks(_, _)
SortedTasks(tasks, k) ==
    IF k = 0 THEN << >> ELSE InsertByPriority(SortedTasks(tasks, k - 1), tasks[k])

(* the agent loop with >= for >: the last agent of the best score wins *)
RECURSIVE BestAgentLastWins(_, _, _, _, _)
BestAgentLastWins(k, agents, task, assignment, best) ==
    IF k > Len(agents) THEN best
    ELSE LET score(j) == Score(task, agents[j], Len(assignment[agents[j].id]))
         IN  BestAgentLastWins(k + 1, agents, task, assignment,
                               IF best = 0 \/ score(k) >= score(best) THEN k ELSE best)

RECURSIVE BestAgent(_, _, _, _, _)
(* the agent loop from agent k on; best is the place of best_agent in the    *)
(* list, 0 for None (best_score is then -inf)                                *)
BestAgent(k, agents, task, assignment, best) ==
    IF k > Len(agents) THEN best
    ELSE LET score(j) == Score(task, agents[j], Len(assignment[agents[j].id]))
         IN  BestAgent(k + 1, agents, task, assignment,
                       IF best = 0 \/ score(k) > score(best) THEN k ELSE best)

RECURSIVE AssignFrom(_, _, _, _)
(* the task loop from the k-th sorted task on *)
AssignFrom(k, sorted, agents, assignment) ==
    IF k > Len(sorted) THEN assignment
    ELSE LET best == BestAgent(1, agents, sorted[k], assignment, 0)
         IN  AssignFrom(k + 1, sorted, agents,
                        IF best # 0
                        THEN [assignment EXCEPT ![agents[best].id] = Append(@, sorted[k].id)]
                        ELSE assignment)

(* distribute_tasks(tasks, agents): agent id -> the ids of its tasks *)
distribute_tasks(tasks, agents) ==
    AssignFrom(1, SortedTasks(tasks, Len(tasks)), agents,
               [id \in {agents[j].id : j \in 1..Len(agents)} |-> << >>])

TaskLists ==
    UNION {{[i \in 1..n |-> Task(i, f[i][1], f[i][2])] :
                f \in [1..n -> Priorities \X SkillSets]} : n \in 0..MaxTasks}

AgentLists ==
    UNION {{[i \in 1..n |-> Agent(i, f[i])] :
                f \in [1..n -> CapabilitySets]} : n \in 0..MaxAgents}

(* the arguments of one call, not yet made *)
InitTasks ==
    /\ eng = "memory"
    /\ n_qubits = 0 /\ n_levels = 0
    /\ psi = <<>> /\ den = 1 /\ normalized = FALSE
    /\ steps = 0
    /\ \E tasks \in TaskLists, agents \in AgentLists :
          last = ServiceCall("args", <<tasks, agents>>, << >>, FALSE)
    /\ history = <<>>
    /\ ServicesIdle

(* qm.distribute_tasks(tasks, agents) *)
DistributeTasks ==
    /\ last.op = "args"
    /\ last' = ServiceCall("distribute_tasks", last.pre,
                           distribute_tasks(last.pre[1], last.pre[2]), FALSE)
    /\ UNCHANGED <<eng, n_qubits, n_levels, psi, den, normalized, steps, history, services>>

NextTasks == DistributeTasks

SpecTasks == InitTasks /\ [][NextTasks]_vars

----------------------------------------------------------------------------
(* quantum_cluster_balancer.py *)

MaxErrors == 2

(* what a node does with a GET: answer 200, answer another status (with a    *)
(* JSON body, as the nodes' server does), or fail the request (connection    *)
(* refused, timeout)                                                         *)
Statuses == {"up", "error", "down"}

(* check_node_health(node): 200 marks the node healthy, an exception marks   *)
(* it unhealthy, any other status changes nothing; response_time is not kept *)
check_node_health(health, name, status) ==
    CASE status = "up" ->
            [ok |-> TRUE,
             health |-> [health EXCEPT ![name] = [healthy |-> TRUE, errors |-> 0]]]
      [] status = "down" ->
            [ok |-> FALSE,
             health |-> [health EXCEPT ![name] = [healthy |-> FALSE, errors |-> @.errors + 1]]]
      [] status = "error" -> [ok |-> FALSE, health |-> health]

RECURSIVE CheckFrom(_, _, _)
(* the second loop of get_healthy_node from node k on; node 0 is None *)
CheckFrom(k, health, status) ==
    IF k > Len(NODES) THEN [node |-> 0, health |-> health]
    ELSE LET c == check_node_health(health, NODES[k], status[NODES[k]])
         IN  IF c.ok THEN [node |-> k, health |-> c.health]
             ELSE CheckFrom(k + 1, c.health, status)

RECURSIVE FirstMarked(_, _, _)
(* the first loop of get_healthy_node from its i-th turn on: the index of    *)
(* the first node marked healthy, -1 when the loop ends without one          *)
FirstMarked(health, index, i) ==
    IF i >= Len(NODES) THEN -1
    ELSE IF health[NODES[((index + i) % Len(NODES)) + 1]].healthy
    THEN (index + i) % Len(NODES)
    ELSE FirstMarked(health, index, i + 1)

(* the one element of a set of one element *)
Only(S) == CHOOSE x \in S : TRUE

(* get_healthy_node(): the first node marked healthy from current_node_index *)
(* on, else the first node that passes check_node_health, else None (node 0) *)
get_healthy_node(health, index, status) ==
    Only({IF idx >= 0
          THEN [node |-> idx + 1, health |-> health, index |-> (idx + 1) % Len(NODES)]
          ELSE Only({[node |-> checked.node, health |-> checked.health, index |-> index] :
                        checked \in {CheckFrom(1, health, status)}}) :
             idx \in {FirstMarked(health, index, 0)}})

(* what GET /search answers: the HTTP status, the node named in the body,    *)
(* whether the body holds results or a node's error, the nodes selected      *)
Answer(code, node, body, selected, g) ==
    [code |-> code, node |-> node, body |-> body, selected |-> selected,
     health |-> g.health, index |-> g.index]

(* the except branch of search_distributed: node g.node is marked unhealthy  *)
(* and the request is forwarded once more, to the next selected node and     *)
(* outside any try: an exception there leaves the handler (the server        *)
(* answers 500), the body of an error status is returned as the answer       *)
Failover(g, status) ==
    Only({IF retry.node = 0 THEN Answer(503, 0, "none", {g.node}, retry)
          ELSE CASE status[NODES[retry.node]] = "up" ->
                       Answer(200, retry.node, "results", {g.node, retry.node}, retry)
                 [] status[NODES[retry.node]] = "error" ->
                       Answer(200, retry.node, "error", {g.node, retry.node}, retry)
                 [] status[NODES[retry.node]] = "down" ->
                       Answer(500, 0, "none", {g.node, retry.node}, retry) :
             retry \in {get_healthy_node(
                           [g.health EXCEPT ![NODES[g.node]] =
                               [healthy |-> FALSE, errors |-> @.errors + 1]],
                           g.index, status)}})

(* search_distributed: 503 when no node is selected; else forward to the     *)
(* selected node; any exception, and a status other than 200, goes to the    *)
(* except branch                                                             *)
search_distributed(health, index, status) ==
    Only({IF g.node = 0 THEN Answer(503, 0, "none", {}, g)
          ELSE IF status[NODES[g.node]] = "up"
          THEN Answer(200, g.node, "results", {g.node}, g)
          ELSE Failover(g, status) :
             g \in {get_healthy_node(health, index, status)}})

RECURSIVE GatherFrom(_, _, _)
(* asyncio.gather of check_node_health over NODES from node k on: each call  *)
(* touches its own node's entry only                                         *)
GatherFrom(k, health, status) ==
    IF k > Len(NODES) THEN [results |-> << >>, health |-> health]
    ELSE LET c == check_node_health(health, NODES[k], status[NODES[k]])
             rest == GatherFrom(k + 1, c.health, status)
         IN  [results |-> <<c.ok>> \o rest.results, health |-> rest.health]

(* cluster_health (and cluster_stats, which makes the same calls): the count *)
(* of checks that returned True, and the healthy flags listed                *)
cluster_health(health, status) ==
    LET g == GatherFrom(1, health, status)
    IN  [results |-> g.results,
         healthy_nodes |-> Cardinality({k \in 1..Len(NODES) : g.results[k]}),
         nodes |-> [k \in 1..Len(NODES) |-> g.health[NODES[k]].healthy],
         health |-> g.health]

WithinErrors(health) == \A name \in NodeNames : health[name].errors <= MaxErrors

InitBalancer ==
    /\ eng = "balancer"
    /\ n_qubits = 0 /\ n_levels = 0
    /\ psi = <<>> /\ den = 1 /\ normalized = FALSE
    /\ steps = 0
    /\ last = NotConstructed
    /\ history = <<>>
    /\ memory = NewMemory(<< >>)
    /\ node_health = InitialHealth
    /\ current_node_index = 0
    /\ node_status \in [NodeNames -> Statuses]

BalancerCall(call, health, index) ==
    /\ eng = "balancer"
    /\ WithinErrors(health)
    /\ node_health' = health
    /\ current_node_index' = index
    /\ last' = call
    /\ UNCHANGED <<eng, n_qubits, n_levels, psi, den, normalized, steps, history,
                   memory, node_status>>

(* GET /search *)
SearchRequest ==
    \E r \in {search_distributed(node_health, current_node_index, node_status)} :
        BalancerCall(ServiceCall("search", node_status,
                                 [code |-> r.code, node |-> r.node, body |-> r.body,
                                  selected |-> r.selected], r.code = 500),
                     r.health, r.index)

(* GET /health *)
HealthRequest ==
    \E r \in {cluster_health(node_health, node_status)} :
        BalancerCall(ServiceCall("health", node_status,
                                 [results |-> r.results, healthy_nodes |-> r.healthy_nodes,
                                  nodes |-> r.nodes], FALSE),
                     r.health, current_node_index)

(* a node goes down, starts failing, or comes back *)
NodeChanges(name, status) ==
    /\ eng = "balancer"
    /\ node_status[name] # status
    /\ node_status' = [node_status EXCEPT ![name] = status]
    /\ UNCHANGED <<eng, n_qubits, n_levels, psi, den, normalized, steps, last, history,
                   memory, node_health, current_node_index>>

NextBalancer ==
    \/ SearchRequest
    \/ HealthRequest
    \/ \E name \in NodeNames, status \in Statuses : NodeChanges(name, status)

SpecBalancer == InitBalancer /\ [][NextBalancer]_vars

(* a steady stream of /search requests and nothing else: /health and /stats  *)
(* are never called                                                          *)
NextSearches ==
    \/ SearchRequest
    \/ \E name \in NodeNames, status \in Statuses : NodeChanges(name, status)

SpecSearches == InitBalancer /\ [][NextSearches]_vars /\ WF_vars(SearchRequest)

----------------------------------------------------------------------------
(* Vocabulary of the properties *)

(* weight of qudit q's digit in the flat basis index: qudit 0 most significant, *)
(* or qudit 0 least significant                                                 *)
MSWeight(q) == Pow(n_levels, n_qubits - q - 1)
LSWeight(q) == Pow(n_levels, q)

DigitAt(i, w) == (i \div w) % n_levels
WithDigit(i, w, k) == i + (k - DigitAt(i, w)) * w

Indices == 0..(Dim - 1)

PreFresh == last.pre = NewState(n_qubits, n_levels).psi /\ last.preden = 1

(* probability of basis index k is num / den *)
ProbIs(k, num, d) == RScale(d, RAbs2(psi[k])) = RInt(num * den)

(* the single-qudit matrix of the last call *)
LastMatrix ==
    CASE last.op = "H" -> HMatrix(n_levels)
      [] last.op = "X" -> XMatrix(n_levels)
      [] last.op = "Z" -> ZMatrix(n_levels)
      [] last.op = "Rz" -> RzMatrix(n_levels, last.th)

(* the vector a single-qudit matrix G gives when it acts on the digit of weight w *)
ActOnDigit(G, w, v, d) ==
    Reduce(Vec([i \in Indices |->
                   RSumTo([k \in 0..(n_levels - 1) |->
                              RMul(G.at[DigitAt(i, w)][k], v[WithDigit(i, w, k)])],
                          n_levels)], Dim),
           d * G.den, Dim)

(* where the controlled shift sends basis index i, digits of weight wc and wt *)
ShiftDest(i, wc, wt) ==
    IF DigitAt(i, wc) > 0
    THEN WithDigit(i, wt, (DigitAt(i, wt) + 1) % n_levels)
    ELSE i

(* the normalized discrete Fourier matrix exp(2 pi i i j / levels) / sqrt(levels), *)
(* and [[1,1],[1,-1]] / sqrt(2) for levels = 2                                     *)
FourierMatrix(levels) ==
    IF levels = 2
    THEN [dim |-> 2, den |-> 2,
          at |-> [i \in 0..1 |-> [j \in 0..1 |->
                     IF i = 1 /\ j = 1 THEN RInt(-1) ELSE ROne]]]
    ELSE [dim |-> levels, den |-> 4 * levels,
          at |-> [i \in 0..(levels - 1) |-> [j \in 0..(levels - 1) |->
                     RScale(2, Exp2PiI(i * j, levels))]]]

(* the basis index whose n digits are all k *)
AllDigits(k) == k * ((Dim - 1) \div (n_levels - 1))

----------------------------------------------------------------------------
(* C1: after every gate call H, X, Z, Rz, CX (in-range indices, control #   *)
(* target, any levels >= 2) on a state evolved from a fresh one, the sum of *)
(* squared amplitude magnitudes is 1.                                       *)
C1_NormIsOne ==
    last.op \in {"H", "X", "Z", "Rz", "CX"} => IsUnit(psi, den, Dim)

(* C2: CX(c, t) moves the amplitude of every basis index i to the index     *)
(* whose target digit is raised by 1 mod levels when the control digit of i *)
(* is > 0, and leaves it at i otherwise; no other digit changes and the map *)
(* on basis indices is a bijection.                                         *)
C2_CXPermutes ==
    last.op = "CX" =>
        LET wc == MSWeight(last.a)
            wt == MSWeight(last.b)
        IN  /\ den = last.preden
            /\ \A i \in Indices : psi[ShiftDest(i, wc, wt)] = last.pre[i]
            /\ \A i \in Indices : \A q \in Qudits :
                  q # last.b =>
                     DigitAt(ShiftDest(i, wc, wt), MSWeight(q)) = DigitAt(i, MSWeight(q))
            /\ \A i \in Indices :
                  DigitAt(ShiftDest(i, wc, wt), wt) =
                     IF DigitAt(i, wc) > 0
                     THEN (DigitAt(i, wt) + 1) % n_levels
                     ELSE DigitAt(i, wt)
            /\ \A i, j \in Indices :
                  ShiftDest(i, wc, wt) = ShiftDest(j, wc, wt) => i = j

C2_Witness ==
    /\ last.op = "CX"
    /\ n_levels = 3
    /\ \E i \in Indices :
          /\ last.pre[i] # RZero
          /\ DigitAt(i, MSWeight(last.a)) = 2
          /\ DigitAt(i, MSWeight(last.b)) = 2
          /\ psi[WithDigit(i, MSWeight(last.b), 0)] = last.pre[i]

(* C3: X(q) is the cyclic shift by +1: the amplitude of every basis index   *)
(* moves to the index whose qudit-q digit k is replaced by (k + 1) mod      *)
(* levels, the direction in which CX shifts its target.                     *)
C3_XShiftsUp ==
    last.op = "X" =>
        LET w == MSWeight(last.a)
        IN  /\ den = last.preden
            /\ \A i \in Indices :
                  psi[WithDigit(i, w, (DigitAt(i, w) + 1) % n_levels)] = last.pre[i]

(* C4: the matrix H(q) applies to qudit q is [[1,1],[1,-1]]/sqrt(2) for     *)
(* levels = 2 and the normalized discrete Fourier matrix, complex phases    *)
(* included, for levels > 2.                                                *)
C4_HIsFourier ==
    last.op = "H" =>
        LET want == ActOnDigit(FourierMatrix(n_levels), MSWeight(last.a),
                               last.pre, last.preden)
        IN  psi = want.psi /\ den = want.den

C6_GhzQubits ==
    (/\ n_levels = 2
     /\ n_qubits >= 2
     /\ PreFresh
     /\ (last.op = "ghz" \/ (last.op = "bell" /\ n_qubits = 2))) =>
        /\ Support(psi, Dim) = {0, Dim - 1}
        /\ ProbIs(0, 1, 2)
        /\ ProbIs(Dim - 1, 1, 2)

C6_Witness ==
    /\ n_levels = 2
    /\ n_qubits = 3
    /\ PreFresh
    /\ last.op = "ghz"
    /\ Support(psi, Dim) = {0, 7}

(* C7: for every levels >= 2 and n >= 2 the GHZ construction on a fresh     *)
(* state gives non-zero probability exactly on the levels basis states      *)
(* whose digits are all equal, each with probability 1/levels.              *)
C7_GhzQudits ==
    (n_qubits >= 2 /\ PreFresh /\ last.op = "ghz") =>
        /\ Support(psi, Dim) = {AllDigits(k) : k \in 0..(n_levels - 1)}
        /\ \A k \in 0..(n_levels - 1) : ProbIs(AllDigits(k), 1, n_levels)

(* probability p1n / p1d is smaller than p2n / p2d *)
ProbLess(p1n, p1d, p2n, p2d) ==
    IF p1d % p2d = 0 THEN p1n < p2n * (p1d \div p2d)
    ELSE IF p2d % p1d = 0 THEN p1n * (p2d \div p1d) < p2n
    ELSE p1n * p2d < p2n * p1d

(* C8: for levels = 2 one diffusion step maps every amplitude vector a to   *)
(* the vector with entries 2 mean(a) - a_i.  With a = pre / sqrt(preden)    *)
(* and the result psi / sqrt(den): psi_i / sqrt(den) = (2 sum(pre) - N      *)
(* pre_i) / (N sqrt(preden)).                                               *)
C8_DiffusionReflectsAboutMean ==
    (last.op = "diffusion" /\ n_levels = 2) =>
        LET total == RSumTo(last.pre, Dim)
        IN  \E g \in 1..Dim :
               /\ den * g * g = last.preden * Dim * Dim
               /\ \A i \in Indices :
                     RScale(g, psi[i]) =
                        RSub(RScale(2, total), RScale(Dim, last.pre[i]))

C8_Witness ==
    /\ last.op = "diffusion"
    /\ n_qubits = 2
    /\ last.pre = (0 :> ROne @@ 1 :> RI @@ 2 :> RZero @@ 3 :> ROne)
    /\ psi = (0 :> RI @@ 1 :> <<2, 0, 0, -1>> @@ 2 :> <<2, 0, 0, 1>> @@ 3 :> RI)
    /\ den = 4

(* C9: for levels = 2, n >= 3 and every target, grover_search on a fresh    *)
(* state with the default iteration count leaves the target with            *)
(* probability above 0.8, and one iteration more gives a strictly lower     *)
(* target probability.                                                      *)
C9_GroverFindsTarget ==
    (last.op = "grover" /\ last.b = -1 /\ n_levels = 2 /\ n_qubits >= 3 /\ PreFresh) =>
        LET more == grover_search(NewState(n_qubits, 2), last.a,
                                  GroverIterations(Dim) + 1, n_qubits, 2)
            p == RAbs2(psi[last.a])
            pm == RAbs2(more.psi[last.a])
        IN  /\ p[2] = 0 /\ p[3] = 0 /\ p[4] = 0
            /\ 5 * p[1] > 4 * den
            /\ ProbLess(pm[1], more.den, p[1], den)

C9_Witness ==
    /\ last.op = "grover"
    /\ last.b = -1
    /\ n_qubits = 3
    /\ last.a = 5
    /\ PreFresh
    /\ GroverIterations(Dim) = 2
    /\ 5 * RAbs2(psi[5])[1] > 4 * den

C11_CollapseIsOneHot ==
    [][(last'.op = "collapse" /\ steps' = steps + 1) =>
          /\ ~last'.raised
          /\ Len(last'.out) = 1
          /\ LET r == last'.out[1]
             IN  /\ r \in Indices
                 /\ psi[r] # RZero
                 /\ psi' = [k \in Indices |-> IF k = r THEN ROne ELSE RZero]
                 /\ den' = 1
                 /\ (last.op = "collapse" => r = last.out[1])]_vars

C11_Witness ==
    /\ eng = "core"
    /\ last.op = "collapse"
    /\ n_qubits = 2
    /\ Cardinality(Support(last.pre, Dim)) = 4
    /\ last.out = <<2>>
    /\ Support(psi, Dim) = {2}

(* C12: measure(shots) of blackroad_quantum returns exactly `shots`         *)
(* outcomes, each an index in [0, levels^n_qubits) whose probability in the *)
(* measured state is non-zero.                                              *)
C12_MeasureReturnsShots ==
    (eng = "bq" /\ last.op = "measure") =>
        /\ ~last.raised
        /\ Len(last.out) = last.a
        /\ \A k \in 1..Len(last.out) :
              last.out[k] \in Indices /\ last.pre[last.out[k]] # RZero

(* C14: for levels = 2, H(q) applied twice in a row to any reachable state  *)
(* gives back exactly the state that held before the two calls.             *)
C14_HTwiceIsIdentity ==
    [][(/\ n_levels = 2
        /\ last.op = "H" /\ last'.op = "H" /\ last'.a = last.a
        /\ steps' = steps + 1) =>
          (psi' = last.pre /\ den' = last.preden)]_vars

C14_Witness ==
    /\ n_levels = 2 /\ n_qubits = 2
    /\ steps = 3
    /\ last.op = "H" /\ last.a = 1
    /\ psi = (0 :> RZero) @@ (1 :> RZero) @@ (2 :> ROne) @@ (3 :> RZero)
    /\ den = 1
    /\ last.pre = (0 :> RZero) @@ (1 :> RZero) @@ (2 :> ROne) @@ (3 :> ROne)
    /\ last.preden = 2

(* C15: for levels = 2 and c # t, CX(c, t) applied twice in a row with the  *)
(* same control and target gives back exactly the state that held before    *)
(* the two calls.                                                           *)
C15_CXTwiceIsIdentity ==
    [][(/\ n_levels = 2
        /\ last.op = "CX" /\ last'.op = "CX"
        /\ last'.a = last.a /\ last'.b = last.b
        /\ steps' = steps + 1) =>
          (psi' = last.pre /\ den' = last.preden)]_vars

C15_Witness ==
    /\ n_levels = 2 /\ n_qubits = 2
    /\ steps = 3
    /\ last.op = "CX" /\ last.a = 0 /\ last.b = 1
    /\ psi = (0 :> ROne) @@ (1 :> RZero) @@ (2 :> ROne) @@ (3 :> RZero)
    /\ den = 2
    /\ last.pre = (0 :> ROne) @@ (1 :> RZero) @@ (2 :> RZero) @@ (3 :> ROne)
    /\ last.preden = 2

(* the methods of BlackRoadQuantum that append to history *)
FluentOps == {"H", "X", "Z", "CX", "bell", "ghz", "grover"}

(* C13: the history of BlackRoadQuantum is append-only: a fluent call (H,   *)
(* X, Z, CX, bell, ghz, grover) that completes appends exactly one entry,   *)
(* its own; measure, a call that raises, and every other step leave the     *)
(* history as it was; no earlier entry is removed, moved or changed.        *)
C13_HistoryAppendOnly ==
    [][eng = "bq" =>
          IF steps' = steps + 1 /\ last'.op \in FluentOps /\ ~last'.raised
          THEN history' = Append(history, Entry(last'.op, last'.a, last'.b))
          ELSE history' = history]_vars

C13_Witness ==
    /\ eng = "bq"
    /\ n_qubits = 2 /\ n_levels = 2
    /\ history = <<Entry("H", 0, -1), Entry("CX", 0, 1)>>
    /\ last.op = "CX" /\ ~last.raised
    /\ Support(psi, Dim) = {0, 3}

(* C16: a gate call whose target or control index is outside [0, n_qubits)  *)
(* fails: H, X, Z, Rz, CX of blackroad_quantum and the single-qubit gates   *)
(* and cnot of the core QuantumCircuit never complete on such an index.     *)
C16_OutOfRangeFails ==
    (/\ last.op \in {"H", "X", "Z", "Rz", "CX", "h", "x", "y", "z", "cnot"}
     /\ \/ last.a \notin Qudits
        \/ (last.op \in {"CX", "cnot"} /\ last.b \notin Qudits)) =>
        last.raised

(* C17: CX(q, q), control and target the same in-range qudit, fails; it     *)
(* never completes.                                                         *)
C17_SameQuditFails ==
    (last.op = "CX" /\ last.a = last.b /\ last.a \in Qudits) => last.raised

(* C18: constructing a state with n_qubits < 1 or n_levels < 2 fails; no    *)
(* state of such a shape is created.                                        *)
C18_InvalidDimensionFails ==
    (eng = "bq" /\ last.op = "new" /\ (last.a < 1 \/ last.b < 2)) => last.raised

(* C19: grover with a target >= dimension fails at the oracle step: the     *)
(* call raises and no amplitude is sign-flipped; the state is the one the   *)
(* initial Hadamards on every qudit left.                                   *)
C19_InvalidTargetFails ==
    (last.op = "grover" /\ last.a >= Dim) =>
        /\ last.raised
        /\ LET h == HAll([psi |-> last.pre, den |-> last.preden, normalized |-> TRUE],
                         0, n_qubits, n_levels)
           IN  psi = h.psi /\ den = h.den

C19_Witness ==
    /\ last.op = "grover" /\ last.a = 4 /\ last.raised
    /\ n_qubits = 2 /\ n_levels = 2
    /\ PreFresh
    /\ psi = (0 :> ROne) @@ (1 :> ROne) @@ (2 :> ROne) @@ (3 :> ROne)
    /\ den = 4
    /\ history = <<>>

(* C20: whatever the remote command does (success, non-zero exit status,    *)
(* unreachable host, timeout, any exception), ssh_exec returns an (output,  *)
(* success) pair and never raises, so set_photon and get_active_devices    *)
(* return normally; a failure shows only as success = False, and a device   *)
(* is listed as active only if its command returned status 0 and printed    *)
(* "online".                                                                *)
C20_SshExecNeverRaises ==
    (eng = "hw" /\ last.op \in {"ssh_exec", "set_photon", "get_active_devices"}) =>
        /\ ~last.raised
        /\ last.op = "ssh_exec" =>
              /\ Len(last.out) = 2
              /\ last.out[2] = (last.pre[1].kind = "returned" /\ last.pre[1].rc = 0)
              /\ last.pre[1].kind = "raised" => last.out[1] = ""
        /\ last.op = "get_active_devices" =>
              \A d \in 1..Len(Devices) :
                 (\E k \in 1..Len(last.out) : last.out[k] = Devices[d]) <=>
                 (last.pre[d] = Returned(0, " online "))

C20_Witness ==
    /\ eng = "hw"
    /\ last.op = "get_active_devices"
    /\ last.pre = <<Returned(0, " online "), Raised, Returned(255, "online"),
                    Returned(0, " online ")>>
    /\ last.out = <<"alice", "shellfish">>
    /\ ~last.raised

(* index i with bit t flipped when bit c is 1; bit 0 is the least significant *)
FlipIf(i, c, t) == IF Bit(i, c) = 1 THEN i + (1 - 2 * Bit(i, t)) * Pow(2, t) ELSE i

(* the last call was cnot and acted as the controlled flip of bit tb on bit cb *)
CnotActsOn(cb, tb) ==
    /\ den = last.preden
    /\ \A i \in Indices : psi[FlipIf(i, cb, tb)] = last.pre[i]

HZeroFresh ==
    /\ last.preden = 2
    /\ last.pre = apply_single_qubit_gate(hadamard, 0, NewState(n_qubits, 2), n_qubits).psi

(* C22: in the core engine and in bloche.Bloche, h(0) then cnot(0, 1) on 2  *)
(* fresh qubits (and bell_state()) leaves non-zero probability exactly on   *)
(* '00' and '11', 1/2 each, and ghz_state(n) leaves it exactly on all-0 and *)
(* all-1.                                                                   *)
C22_CoreBellAndGhz ==
    /\ (/\ eng \in {"core", "bloche"} /\ n_qubits = 2
        /\ \/ last.op = "bell_state"
           \/ (last.op \in {"cnot", "CX"} /\ last.a = 0 /\ last.b = 1 /\ HZeroFresh)) =>
           (Support(psi, Dim) = {0, 3} /\ ProbIs(0, 1, 2) /\ ProbIs(3, 1, 2))
    /\ (eng = "core" /\ last.op = "ghz_state" /\ n_qubits >= 2) =>
           Support(psi, Dim) = {0, Dim - 1}

(* C23: cnot(control, target) of the core engine moves the amplitude of     *)
(* every basis index whose control bit is 1 to the index with the target    *)
(* bit flipped and leaves the others in place, for every ordered pair of    *)
(* distinct qubits, control > target included.                              *)
(* Qubit q is read as bit q of the basis index (the way cnot reads its bits  *)
(* list) or as bit n-1-q (the way the single-qubit gates place their        *)
(* matrix).                                                                 *)
C23_CnotFlipsTarget ==
    (eng = "core" /\ last.op = "cnot") =>
        \/ CnotActsOn(last.a, last.b)
        \/ CnotActsOn(n_qubits - 1 - last.a, n_qubits - 1 - last.b)

(* C30: in bloche_ultimate.Bloche the history entry of a gate call          *)
(* identifies the gate applied: any gate that would have logged the same    *)
(* entry takes the state before the call to the same state vector, so equal *)
(* histories give equal states.                                             *)
C30_HistoryDeterminesState ==
    (eng = "ultimate" /\ last.op \in {"h", "x", "y", "z"}) =>
        \A name \in {"h", "x", "y", "z"} :
           Gate00(name) = Gate00(last.op) =>
              LET other == apply_single_qubit_gate(CoreGate(name), last.a,
                              [psi |-> last.pre, den |-> last.preden, normalized |-> TRUE],
                              n_qubits)
              IN  other.psi = psi /\ other.den = den

(* the entries of the journal that match the query, in journal order *)
MatchingEntries(journal, query) ==
    SelectSeq(journal, LAMBDA entry :
                 parse_query(query).value \in Split(entry.tags))

(* C21: on a fresh QuantumMemory (nothing cached), search(query, use_quantum) *)
(* returns, for either value of use_quantum and so also on the Grover path of *)
(* journals of 64 to 1024 entries, all entries of the journal that match the  *)
(* query, in journal order, and does not raise.                               *)
C21_QuantumEqualsClassical ==
    [][(memory.cache = {} /\ last'.op = "search")
         => /\ ~last'.raised
            /\ last'.out = MatchingEntries(memory.journal, last'.pre[1])]_vars

(* C24: a result that search returns from its cache is the list of entries of *)
(* the current journal that match the query.                                  *)
C24_CacheIsFresh ==
    (last.op = "search" /\ last.pre[3])
        => last.out = MatchingEntries(memory.journal, last.pre[1])

(* the call distribute_tasks(tasks, agents) just made, and what it returned *)
Distributed == last.op = "distribute_tasks"
GivenTasks == last.pre[1]
GivenAgents == last.pre[2]

(* the agents whose list holds task i *)
Holders(i) ==
    {a \in 1..Len(GivenAgents) :
        \E p \in 1..Len(last.out[GivenAgents[a].id]) : last.out[GivenAgents[a].id][p] = i}

(* task j is visited before task i: higher priority first, equal priorities *)
(* in the order given                                                       *)
VisitedBefore(j, i) ==
    \/ GivenTasks[j].priority > GivenTasks[i].priority
    \/ GivenTasks[j].priority = GivenTasks[i].priority /\ j < i

(* what agent a holds when task i is visited *)
WorkloadAt(a, i) ==
    Cardinality({j \in 1..Len(GivenTasks) : VisitedBefore(j, i) /\ a \in Holders(j)})

ScoreAt(a, i) == Score(GivenTasks[i], GivenAgents[a], WorkloadAt(a, i))

(* C29: distribute_tasks with no agent returns an empty assignment; with at  *)
(* least one agent every task is in the list of exactly one agent, exactly   *)
(* once, and, the tasks being visited by descending priority (equal ones in  *)
(* the order given), each task is held by the agent whose skill_match minus  *)
(* 0.1 times its workload at that moment is largest, the earliest such agent *)
(* in the list.                                                              *)
C29_DistributeTasks ==
    Distributed =>
        /\ DOMAIN last.out = {GivenAgents[a].id : a \in 1..Len(GivenAgents)}
        /\ Len(GivenAgents) > 0 =>
             \A i \in 1..Len(GivenTasks) :
                /\ Cardinality(Holders(i)) = 1
                /\ \A a \in Holders(i) :
                      /\ Cardinality({p \in 1..Len(last.out[GivenAgents[a].id]) :
                                         last.out[GivenAgents[a].id][p] = i}) = 1
                      /\ \A b \in 1..Len(GivenAgents) :
                            /\ ScoreAt(a, i) >= ScoreAt(b, i)
                            /\ b < a => ScoreAt(a, i) > ScoreAt(b, i)

(* a call with two agents in which a task of higher priority comes later in  *)
(* the argument and some task finds both agents at the same score            *)
C29_Witness ==
    /\ Distributed
    /\ Len(GivenAgents) = 2
    /\ \E i, j \in 1..Len(GivenTasks) :
          i < j /\ GivenTasks[i].priority < GivenTasks[j].priority
    /\ \E i \in 1..Len(GivenTasks) : ScoreAt(1, i) = ScoreAt(2, i)

(* the devices that answer "online" with exit status 0, in list order *)
Reachable(outcomes) ==
    SelectSeq(Devices, LAMBDA d :
        \E k \in 1..Len(Devices) :
            /\ Devices[k] = d
            /\ outcomes[k].kind = "returned"
            /\ outcomes[k].rc = 0
            /\ outcomes[k].stdout = " online ")

(* C28: quantum_walk(hardware, steps) does not raise, whichever devices are  *)
(* reachable (none included); step k sets device k mod n of the n active     *)
(* devices to 255 and the other active devices to 0, and after the last step *)
(* every active device is set to 128.                                        *)
C28_QuantumWalkCompletes ==
    last.op = "quantum_walk" =>
        LET active == Reachable(last.pre)
            n == Len(active)
        IN  /\ ~last.raised
            /\ Len(last.out) = (last.a + 1) * n
            /\ \A k \in 0..(last.a - 1) :
                  {last.out[k * n + p] : p \in 1..n} =
                      {<<active[(k % n) + 1], 255>>}
                         \cup {<<active[q], 0>> : q \in (1..n) \ {(k % n) + 1}}
            /\ {last.out[last.a * n + p] : p \in 1..n} =
                  {<<active[q], 128>> : q \in 1..n}

(* C25: GET /search answers 200 with the results of a node that served the   *)
(* request, or else 503: the failure of a node, the retry node included,     *)
(* reaches the caller as nothing else.                                       *)
C25_SearchAnswers503 ==
    last.op = "search" =>
        \/ last.out.code = 200 /\ last.out.body = "results"
        \/ last.out.code = 503

(* C27: a node whose check_node_health returned False in a /health request   *)
(* is marked unhealthy after it, so healthy_nodes in the answer is the       *)
(* number of nodes the answer lists as healthy.                              *)
C27_FailedCheckMarksUnhealthy ==
    last.op = "health" =>
        /\ \A k \in 1..Len(NODES) :
              ~last.out.results[k] => ~node_health[NODES[k]].healthy
        /\ last.out.healthy_nodes =
              Cardinality({k \in 1..Len(NODES) : last.out.nodes[k]})

(* get_healthy_node selected node n in the /search request just answered *)
Selected(n) == last.op = "search" /\ n \in last.out.selected

(* C26: under a steady stream of /search requests and no other request, if   *)
(* node m stays marked healthy and up and node n is up from some moment on,  *)
(* then whenever n is marked unhealthy it is selected again later.           *)
C26_UnhealthyNodeComesBack ==
    \A n \in 1..Len(NODES), m \in 1..Len(NODES) :
        (n # m) =>
            (([](node_health[NODES[m]].healthy /\ node_status[NODES[m]] = "up")
                 /\ <>[](node_status[NODES[n]] = "up"))
              => ((~node_health[NODES[n]].healthy) ~> Selected(n)))

====
